---- MODULE Spec2Model ----
(***************************************************************************)
(* Model of live_tracker7day_withaverage.py: one pass of the Streamlit     *)
(* script (auto-refresh, fetch, schema normalisation, gap filling, row     *)
(* guard, portfolios, EMAs, metrics and signal), re-executed on rerun.     *)
(*                                                                         *)
(* Floating-point cells are modelled as exact rationals extended with NaN  *)
(* and +/-Inf (IEEE results of division by zero); rounding is not          *)
(* modelled.  A table's timestamp index is the row position 1..n.          *)
(***************************************************************************)
EXTENDS Integers, Sequences, FiniteSets, TLC

VARIABLES pc, remaining, raw, shape, data, portfolios, y_range, charts,
          btc_ema, eth_ema, metrics, banner, errors, outcome

vars == <<pc, remaining, raw, shape, data, portfolios, y_range, charts,
          btc_ema, eth_ema, metrics, banner, errors, outcome>>

-----------------------------------------------------------------------------
(* Settings *)

refresh_interval == 60

days_to_track == 7

tickers == <<"BTC-USD", "ETH-USD">>

ema_period == 7

(* Bound on the number of hourly bars the data source returns. *)
MaxRows == 3

(* Elapsed seconds since the last refresh, as seen by one run. *)
ElapsedVals == {0, 60, 75}

-----------------------------------------------------------------------------
(* float64 cells: rationals n/d in lowest terms (d > 0), NaN, +Inf, -Inf *)

Abs(x) == IF x < 0 THEN -x ELSE x

Sgn(x) == IF x < 0 THEN -1 ELSE IF x > 0 THEN 1 ELSE 0

RECURSIVE GCD(_, _)
GCD(a, b) == IF b = 0 THEN a ELSE GCD(b, a % b)

NaN == [k |-> "nan", n |-> 0, d |-> 1]

Inf(s) == [k |-> "inf", n |-> s, d |-> 1]

Rat(n, d) ==
    LET g == GCD(Abs(n), d)
    IN  [k |-> "num", n |-> Sgn(n) * (Abs(n) \div g), d |-> d \div g]

Num(i) == Rat(i, 1)

IsNaN(v) == v.k = "nan"

IsNum(v) == v.k = "num"

Neg(a) == IF IsNaN(a) THEN NaN ELSE [a EXCEPT !.n = -a.n]

Add(a, b) ==
    IF IsNaN(a) \/ IsNaN(b) THEN NaN
    ELSE IF a.k = "inf" /\ b.k = "inf" THEN (IF a.n = b.n THEN a ELSE NaN)
    ELSE IF a.k = "inf" THEN a
    ELSE IF b.k = "inf" THEN b
    ELSE Rat(a.n * b.d + b.n * a.d, a.d * b.d)

Sub(a, b) == Add(a, Neg(b))

Mul(a, b) ==
    IF IsNaN(a) \/ IsNaN(b) THEN NaN
    ELSE IF a.k = "inf" \/ b.k = "inf"
         THEN (IF a.n = 0 \/ b.n = 0 THEN NaN ELSE Inf(Sgn(a.n) * Sgn(b.n)))
    ELSE Rat(a.n * b.n, a.d * b.d)

(* IEEE division: x/0 is +/-Inf, 0/0 and Inf/Inf are NaN; no exception is   *)
(* raised for numpy float64 operands.  Zero cells are +0.0.                 *)
Div(a, b) ==
    IF IsNaN(a) \/ IsNaN(b) THEN NaN
    ELSE IF a.k = "inf"
         THEN (IF b.k = "inf" THEN NaN
               ELSE Inf(a.n * (IF b.n < 0 THEN -1 ELSE 1)))
    ELSE IF b.k = "inf" THEN Num(0)
    ELSE IF b.n = 0 THEN (IF a.n = 0 THEN NaN ELSE Inf(Sgn(a.n)))
    ELSE Rat(a.n * b.d * Sgn(b.n), a.d * Abs(b.n))

(* a > b on floats: False whenever an operand is NaN *)
Gt(a, b) ==
    IF IsNaN(a) \/ IsNaN(b) THEN FALSE
    ELSE IF a.k = "inf" THEN (a.n = 1 /\ ~(b.k = "inf" /\ b.n = 1))
    ELSE IF b.k = "inf" THEN b.n = -1
    ELSE a.n * b.d > b.n * a.d

-----------------------------------------------------------------------------
(* Tables.  A raw table has n rows and columns keyed by <<level0, level1>>  *)
(* (level1 = "" when the columns are single-level); vals[i] is column i.    *)

NoTable == [kind |-> "none", cols |-> << >>, vals |-> << >>, n |-> 0]

Frame(cols, vals, n) == [kind |-> "frame", cols |-> cols, vals |-> vals, n |-> n]

Series(name, col) ==
    [kind |-> "series", cols |-> <<name>>, vals |-> <<col>>, n |-> Len(col)]

RawTable(multi, cols, vals, n) ==
    [multi |-> multi, cols |-> cols, vals |-> vals, n |-> n]

NoRaw == RawTable(FALSE, << >>, << >>, 0)

(* raw.columns.levels[0] / the labels `in raw.columns` tests *)
Level0(r) == {r.cols[i][1] : i \in 1..Len(r.cols)}

(* positions of the columns under top-level key `key`, in column order *)
RECURSIVE ColsUnder(_, _, _)
ColsUnder(r, key, i) ==
    IF i > Len(r.cols) THEN << >>
    ELSE (IF r.cols[i][1] = key THEN <<i>> ELSE << >>) \o ColsUnder(r, key, i + 1)

IndexOf(r, key) == CHOOSE i \in 1..Len(r.cols) : r.cols[i][1] = key

-----------------------------------------------------------------------------
(* Schema normaliser (lines 48-63).  The test at lines 44-46 only executes  *)
(* `pass` and is not modelled.                                              *)

Result(status, shp, d, msg) ==
    [status |-> status, shape |-> shp, data |-> d, msg |-> msg]

(* raw[key] on two-level columns: the sub-frame of the columns under key,   *)
(* labelled by their second level                                           *)
FieldFrame(r, key) ==
    LET idx == ColsUnder(r, key, 1)
    IN  Frame([i \in 1..Len(idx) |-> r.cols[idx[i]][2]],
              [i \in 1..Len(idx) |-> r.vals[idx[i]]], r.n)

SelectOpen(r) == FieldFrame(r, "Open")

(* data = raw["Close"].copy() on a MultiIndex *)
SelectClose(r) == FieldFrame(r, "Close")

(* data = raw[["BTC-USD", "ETH-USD"]].copy() *)
SelectTickers(r) ==
    Frame(tickers, [i \in 1..Len(tickers) |-> r.vals[IndexOf(r, tickers[i])]], r.n)

FallbackKeepRaw(r) ==
    IF "Close" \in Level0(r)
    THEN Result("ok", "CloseField", Series("Close", r.vals[IndexOf(r, "Close")]), << >>)
    ELSE Result("ok", "Unrecognized",
                Frame([i \in 1..Len(r.cols) |-> r.cols[i][1]], r.vals, r.n), << >>)

(* try: data = raw["Close"].copy()  except: st.error(...); st.stop() *)
Fallback(r) ==
    IF "Close" \in Level0(r)
    THEN Result("ok", "CloseField", Series("Close", r.vals[IndexOf(r, "Close")]), << >>)
    ELSE Result("DataShapeError", "Unrecognized", NoTable,
                [i \in 1..Len(r.cols) |-> r.cols[i][1]])

SchemaNormalizer(r) ==
    IF r.multi
    THEN IF "Close" \in Level0(r)
         THEN Result("ok", "TwoLevelColumns", SelectClose(r), << >>)
         ELSE Result("KeyError", "TwoLevelColumns", NoTable, << >>)
    ELSE IF \A i \in 1..Len(tickers) : tickers[i] \in Level0(r)
         THEN Result("ok", "DirectSymbolColumns", SelectTickers(r), << >>)
         ELSE Fallback(r)

-----------------------------------------------------------------------------
(* Gap filler (line 66) and row guard (line 69) *)

RECURSIVE FfillFrom(_, _, _)
FfillFrom(col, i, last) ==
    IF i > Len(col) THEN << >>
    ELSE LET v == IF IsNaN(col[i]) THEN last ELSE col[i]
         IN  <<v>> \o FfillFrom(col, i + 1, v)

Ffill(col) == FfillFrom(col, 1, NaN)

RECURSIVE BfillFrom(_, _, _)
BfillFrom(col, i, next) ==
    IF i < 1 THEN << >>
    ELSE LET v == IF IsNaN(col[i]) THEN next ELSE col[i]
         IN  BfillFrom(col, i - 1, v) \o <<v>>

Bfill(col) == BfillFrom(col, Len(col), NaN)

GapFillColumnBfillFirst(col) == Ffill(Bfill(col))

GapFillColumn(col) == Bfill(Ffill(col))

(* data.ffill().bfill(): column-wise, index and columns kept *)
GapFiller(d) ==
    [d EXCEPT !.vals = [i \in 1..Len(d.vals) |-> GapFillColumn(d.vals[i])]]

IsEmpty(d) == d.n = 0 \/ Len(d.cols) = 0

TooFewRowsOffByOne(d) == IsEmpty(d) \/ d.n < 1

(* data.empty or len(data) < 2 *)
TooFewRows(d) == IsEmpty(d) \/ d.n < 2

-----------------------------------------------------------------------------
(* Portfolio calculator (lines 76-88) *)

HasColumn(d, name) == d.kind = "frame" /\ \E i \in 1..Len(d.cols) : d.cols[i] = name

Column(d, name) == d.vals[CHOOSE i \in 1..Len(d.cols) : d.cols[i] = name]

Last(col) == col[Len(col)]

NormalizeByLast(col) == [t \in 1..Len(col) |-> Div(col[t], Last(col))]

(* s / s.iloc[0] *)
NormalizedSeries(col) == [t \in 1..Len(col) |-> Div(col[t], col[1])]

Half == Rat(1, 2)

BlendedSeries(a, b) ==
    [t \in 1..Len(a) |-> Add(Mul(Half, a[t]), Mul(Half, b[t]))]

Portfolios(d) ==
    LET btc == NormalizedSeries(Column(d, "BTC-USD"))
        eth == NormalizedSeries(Column(d, "ETH-USD"))
    IN  [btc |-> btc, eth |-> eth, mix |-> BlendedSeries(btc, eth)]

NoPortfolios == [btc |-> << >>, eth |-> << >>, mix |-> << >>]

Cells(p) ==
    {p.btc[t] : t \in 1..Len(p.btc)} \cup {p.eth[t] : t \in 1..Len(p.eth)}
        \cup {p.mix[t] : t \in 1..Len(p.mix)}

(* min/max skip NaN; NaN when nothing is left *)
MinOf(S) ==
    LET V == {v \in S : ~IsNaN(v)}
    IN  IF V = {} THEN NaN ELSE CHOOSE v \in V : \A w \in V : ~Gt(v, w)

MaxOf(S) ==
    LET V == {v \in S : ~IsNaN(v)}
    IN  IF V = {} THEN NaN ELSE CHOOSE v \in V : \A w \in V : ~Gt(w, v)

YRange(p) ==
    <<Mul(MinOf(Cells(p)), Rat(995, 1000)), Mul(MaxOf(Cells(p)), Rat(1005, 1000))>>

-----------------------------------------------------------------------------
(* Trend smoother (lines 120, 143): Series.ewm(span, adjust).mean() *)

Alpha(span) == Div(Num(2), Num(span + 1))

(* one step of the exponentially weighted mean; st = <<weighted, old_wt>> *)
EwmStep(st, cur, alpha, adjust) ==
    LET weighted == st[1]
        old_wt   == st[2]
        new_wt   == IF adjust THEN Num(1) ELSE alpha
        decayed  == Mul(old_wt, Sub(Num(1), alpha))
    IN  IF ~IsNaN(weighted)
        THEN IF ~IsNaN(cur)
             THEN << IF weighted # cur
                     THEN Div(Add(Mul(decayed, weighted), Mul(new_wt, cur)),
                              Add(decayed, new_wt))
                     ELSE weighted,
                     IF adjust THEN Add(decayed, new_wt) ELSE Num(1) >>
             ELSE <<weighted, decayed>>
        ELSE IF ~IsNaN(cur) THEN <<cur, old_wt>> ELSE st

RECURSIVE EwmFrom(_, _, _, _, _)
EwmFrom(col, i, st, alpha, adjust) ==
    IF i > Len(col) THEN << >>
    ELSE LET nx == EwmStep(st, col[i], alpha, adjust)
         IN  <<nx[1]>> \o EwmFrom(col, i + 1, nx, alpha, adjust)

EwmMean(col, alpha, adjust) ==
    IF Len(col) = 0 THEN << >>
    ELSE <<col[1]>> \o EwmFrom(col, 2, <<col[1], Num(1)>>, alpha, adjust)

EwmAdjusted(col, span) == EwmMean(col, Alpha(span), TRUE)

(* price.ewm(span=ema_period, adjust=False).mean() *)
Ewm(col, span) == EwmMean(col, Alpha(span), FALSE)

-----------------------------------------------------------------------------
(* Metrics and signal (lines 165-181).  `metrics` holds the values handed   *)
(* to the three st.metric widgets before their display formatting.          *)

NoMetrics ==
    [btc_last |-> NaN, eth_last |-> NaN, eth_btc_ratio |-> NaN,
     eth_return_pct |-> NaN, btc_return_pct |-> NaN, diff_pct |-> NaN,
     widgets |-> 0]

MetricsInverted(p) ==
    LET eth_last == Last(p.eth)
        btc_last == Last(p.btc)
        eth_return_pct == Mul(Sub(eth_last, Num(1)), Num(100))
        btc_return_pct == Mul(Sub(btc_last, Num(1)), Num(100))
    IN  [btc_last |-> btc_last, eth_last |-> eth_last,
         eth_btc_ratio |-> Div(btc_last, eth_last),
         eth_return_pct |-> eth_return_pct, btc_return_pct |-> btc_return_pct,
         diff_pct |-> Sub(eth_return_pct, btc_return_pct),
         widgets |-> 3]

Metrics(p) ==
    LET eth_last == Last(p.eth)
        btc_last == Last(p.btc)
        eth_return_pct == Mul(Sub(eth_last, Num(1)), Num(100))
        btc_return_pct == Mul(Sub(btc_last, Num(1)), Num(100))
    IN  [btc_last |-> btc_last, eth_last |-> eth_last,
         eth_btc_ratio |-> Div(eth_last, btc_last),
         eth_return_pct |-> eth_return_pct, btc_return_pct |-> btc_return_pct,
         diff_pct |-> Sub(eth_return_pct, btc_return_pct),
         widgets |-> 3]

SignalTieToEth(m) ==
    IF ~Gt(m.btc_last, m.eth_last) THEN "success" ELSE "warning"

(* if eth_last > btc_last: st.success(...) else: st.warning(...) *)
Signal(m) ==
    IF Gt(m.eth_last, m.btc_last) THEN "success" ELSE "warning"

-----------------------------------------------------------------------------
(* What the data source (yf.download, line 42) may return *)

BtcVals == {NaN, Num(0), Num(100), Num(105), Num(110)}

EthVals == {NaN, Num(100), Num(110)}

OpenCell == Num(7)

ConstCol(v, n) == [t \in 1..n |-> v]

(* field-then-symbol two-level columns *)
TwoLevelRaw(b, e, n) ==
    RawTable(TRUE,
             << <<"Close", "BTC-USD">>, <<"Close", "ETH-USD">>,
                <<"Open", "BTC-USD">>, <<"Open", "ETH-USD">> >>,
             <<b, e, ConstCol(OpenCell, n), ConstCol(OpenCell, n)>>, n)

(* single-level columns keyed by symbol *)
DirectRaw(b, e, n) ==
    RawTable(FALSE, << <<"ETH-USD", "">>, <<"BTC-USD", "">> >>, <<e, b>>, n)

(* single-level columns keyed by field *)
CloseFieldRaw(b, n) ==
    RawTable(FALSE, << <<"Close", "">>, <<"Open", "">> >>,
             <<b, ConstCol(OpenCell, n)>>, n)

(* symbol-then-field two-level columns: no "Close" on the first level *)
TickerFirstRaw(n) ==
    RawTable(TRUE, << <<"BTC-USD", "Close">>, <<"ETH-USD", "Close">> >>,
             <<ConstCol(Num(100), n), ConstCol(Num(110), n)>>, n)

(* neither both symbols nor a "Close" column *)
UnrecognizedRaws(n) ==
    { RawTable(FALSE, << <<"Open", "">>, <<"Volume", "">> >>,
               <<ConstCol(OpenCell, n), ConstCol(Num(0), n)>>, n),
      RawTable(FALSE, << <<"BTC-USD", "">> >>, <<ConstCol(Num(100), n)>>, n),
      RawTable(FALSE, << >>, << >>, n) }

NaCols(m) == [1..m -> {NaN, Num(100)}]

-----------------------------------------------------------------------------
(* State of one pass *)

Init ==
    /\ pc = "refresh"
    /\ remaining = refresh_interval
    /\ raw = NoRaw
    /\ shape = "none"
    /\ data = NoTable
    /\ portfolios = NoPortfolios
    /\ y_range = <<NaN, NaN>>
    /\ charts = << >>
    /\ btc_ema = << >>
    /\ eth_ema = << >>
    /\ metrics = NoMetrics
    /\ banner = "none"
    /\ errors = << >>
    /\ outcome = "none"

(* lines 25-34: countdown; st.rerun() restarts the script when due *)
AutoRefresh ==
    /\ pc = "refresh"
    /\ \E elapsed \in ElapsedVals :
          /\ remaining' = IF refresh_interval - elapsed > 0
                          THEN refresh_interval - elapsed ELSE 0
          /\ pc' = IF elapsed >= refresh_interval THEN "refresh" ELSE "fetch"
    /\ UNCHANGED <<raw, shape, data, portfolios, y_range, charts, btc_ema,
                   eth_ema, metrics, banner, errors, outcome>>

(* line 42 *)
Fetch ==
    /\ pc = "fetch"
    /\ \E m \in 0..MaxRows :
          \/ \E b \in [1..m -> BtcVals], e \in [1..m -> EthVals] :
                raw' \in {TwoLevelRaw(b, e, m), DirectRaw(b, e, m)}
          \/ \E b \in NaCols(m) : raw' = CloseFieldRaw(b, m)
          \/ raw' = TickerFirstRaw(m)
          \/ raw' \in UnrecognizedRaws(m)
    /\ pc' = "normalize"
    /\ UNCHANGED <<remaining, shape, data, portfolios, y_range, charts, btc_ema,
                   eth_ema, metrics, banner, errors, outcome>>

(* lines 48-63 *)
Normalize ==
    /\ pc = "normalize"
    /\ LET res == SchemaNormalizer(raw)
       IN  /\ shape' = res.shape
           /\ data' = res.data
           /\ IF res.status = "ok"
              THEN /\ pc' = "gapfill"
                   /\ UNCHANGED <<errors, outcome>>
              ELSE IF res.status = "DataShapeError"
              THEN /\ pc' = "stopped"
                   /\ errors' = Append(errors, [text |-> "Could not parse data", cols |-> res.msg])
                   /\ outcome' = "DataShapeError"
              ELSE /\ pc' = "crashed"
                   /\ outcome' = res.status
                   /\ UNCHANGED errors
    /\ UNCHANGED <<remaining, raw, portfolios, y_range, charts, btc_ema, eth_ema,
                   metrics, banner>>

(* line 66 *)
GapFill ==
    /\ pc = "gapfill"
    /\ data' = GapFiller(data)
    /\ pc' = "guard"
    /\ UNCHANGED <<remaining, raw, shape, portfolios, y_range, charts, btc_ema,
                   eth_ema, metrics, banner, errors, outcome>>

(* lines 69-71 *)
RowGuard ==
    /\ pc = "guard"
    /\ IF TooFewRows(data)
       THEN /\ pc' = "stopped"
            /\ errors' = Append(errors, [text |-> "No data returned", cols |-> << >>])
            /\ outcome' = "InsufficientDataError"
       ELSE /\ pc' = "portfolio"
            /\ UNCHANGED <<errors, outcome>>
    /\ UNCHANGED <<remaining, raw, shape, data, portfolios, y_range, charts,
                   btc_ema, eth_ema, metrics, banner>>

(* lines 76-114; data[...] raises KeyError when the column is absent *)
PortfolioChart ==
    /\ pc = "portfolio"
    /\ IF \A i \in 1..Len(tickers) : HasColumn(data, tickers[i])
       THEN /\ portfolios' = Portfolios(data)
            /\ y_range' = YRange(Portfolios(data))
            /\ charts' = Append(charts, "portfolio")
            /\ pc' = "btc_ema"
            /\ UNCHANGED outcome
       ELSE /\ pc' = "crashed"
            /\ outcome' = "KeyError"
            /\ UNCHANGED <<portfolios, y_range, charts>>
    /\ UNCHANGED <<remaining, raw, shape, data, btc_ema, eth_ema, metrics, banner,
                   errors>>

(* lines 119-137 *)
BtcChart ==
    /\ pc = "btc_ema"
    /\ btc_ema' = Ewm(Column(data, "BTC-USD"), ema_period)
    /\ charts' = Append(charts, "btc")
    /\ pc' = "eth_ema"
    /\ UNCHANGED <<remaining, raw, shape, data, portfolios, y_range, eth_ema,
                   metrics, banner, errors, outcome>>

(* lines 142-160 *)
EthChart ==
    /\ pc = "eth_ema"
    /\ eth_ema' = Ewm(Column(data, "ETH-USD"), ema_period)
    /\ charts' = Append(charts, "eth")
    /\ pc' = "metrics"
    /\ UNCHANGED <<remaining, raw, shape, data, portfolios, y_range, btc_ema,
                   metrics, banner, errors, outcome>>

(* lines 165-175 *)
ShowMetrics ==
    /\ pc = "metrics"
    /\ metrics' = Metrics(portfolios)
    /\ pc' = "signal"
    /\ UNCHANGED <<remaining, raw, shape, data, portfolios, y_range, charts,
                   btc_ema, eth_ema, banner, errors, outcome>>

(* lines 178-184 *)
ShowSignal ==
    /\ pc = "signal"
    /\ banner' = Signal(metrics)
    /\ pc' = "done"
    /\ outcome' = "rendered"
    /\ UNCHANGED <<remaining, raw, shape, data, portfolios, y_range, charts,
                   btc_ema, eth_ema, metrics, errors>>

(* the host re-invokes the script: everything is recomputed from scratch *)
Rerun ==
    /\ pc \in {"done", "stopped", "crashed"}
    /\ pc' = "refresh"
    /\ raw' = NoRaw
    /\ shape' = "none"
    /\ data' = NoTable
    /\ portfolios' = NoPortfolios
    /\ y_range' = <<NaN, NaN>>
    /\ charts' = << >>
    /\ btc_ema' = << >>
    /\ eth_ema' = << >>
    /\ metrics' = NoMetrics
    /\ banner' = "none"
    /\ errors' = << >>
    /\ outcome' = "none"
    /\ UNCHANGED remaining

Next ==
    \/ AutoRefresh
    \/ Fetch
    \/ Normalize
    \/ GapFill
    \/ RowGuard
    \/ PortfolioChart
    \/ BtcChart
    \/ EthChart
    \/ ShowMetrics
    \/ ShowSignal
    \/ Rerun

Spec == Init /\ [][Next]_vars

-----------------------------------------------------------------------------
(* Properties *)

BothTickers(r) == \A i \in 1..Len(tickers) : tickers[i] \in Level0(r)

NoRecognizableStructure(r) ==
    ~r.multi /\ ~BothTickers(r) /\ "Close" \notin Level0(r)

NothingRendered ==
    charts = << >> /\ metrics.widgets = 0 /\ banner = "none"

NothingComputed ==
    portfolios = NoPortfolios /\ btc_ema = << >> /\ eth_ema = << >>
        /\ metrics = NoMetrics

AfterNormalize ==
    pc \in {"gapfill", "guard", "portfolio", "btc_ema", "eth_ema", "metrics",
            "signal", "done", "stopped", "crashed"}

AfterGuard ==
    pc \in {"portfolio", "btc_ema", "eth_ema", "metrics", "signal", "done",
            "stopped", "crashed"}

(* C1: a pass over a raw table that is not two-level, lacks one of the two   *)
(* symbols as columns and has no "Close" column stops with DataShapeError,   *)
(* shows the raw column names, and renders no chart, metric or banner.       *)
C1_DataShapeAbort ==
    (AfterNormalize /\ NoRecognizableStructure(raw)) =>
        /\ pc = "stopped"
        /\ outcome = "DataShapeError"
        /\ Len(errors) = 1
        /\ Len(errors[1].cols) = Len(raw.cols)
        /\ \A i \in 1..Len(raw.cols) : errors[1].cols[i] = raw.cols[i][1]
        /\ NothingRendered
        /\ NothingComputed

C1_Witness ==
    /\ pc = "stopped"
    /\ outcome = "DataShapeError"
    /\ NoRecognizableStructure(raw)
    /\ Len(raw.cols) = 2
    /\ raw.n = 3

(* C2: a pass whose gap-filled table is empty or has fewer than 2 rows stops *)
(* with InsufficientDataError and one message, renders nothing, and runs no  *)
(* portfolio, EMA or metric computation.                                     *)
C2_InsufficientDataAbort ==
    (AfterGuard /\ data.kind # "none" /\ (data.n < 2 \/ Len(data.cols) = 0)) =>
        /\ pc = "stopped"
        /\ outcome = "InsufficientDataError"
        /\ Len(errors) = 1
        /\ NothingRendered
        /\ NothingComputed

C2_Witness ==
    /\ pc = "stopped"
    /\ outcome = "InsufficientDataError"
    /\ data.kind = "frame"
    /\ data.n = 1
    /\ Len(data.cols) = 2

NoMissingCells(d) ==
    \A i \in 1..Len(d.vals) : \A t \in 1..Len(d.vals[i]) : ~IsNaN(d.vals[i][t])

ColumnSet(d) == IF d.kind = "frame" THEN {d.cols[i] : i \in 1..Len(d.cols)} ELSE {}

(* C3: whenever a pass reaches the portfolio calculator, the price table has *)
(* no missing cells, exactly the columns BTC-USD and ETH-USD, and at least   *)
(* 2 rows.                                                                   *)
C3_PriceTableInvariant ==
    pc = "portfolio" =>
        /\ NoMissingCells(data)
        /\ ColumnSet(data) = {"BTC-USD", "ETH-USD"}
        /\ Len(data.cols) = 2
        /\ data.n >= 2

(* the cell of the raw column keyed <<l0, l1>> at row t *)
RawCell(r, l0, l1, t) ==
    r.vals[CHOOSE i \in 1..Len(r.cols) : r.cols[i] = <<l0, l1>>][t]

FieldThenSymbol(r) ==
    r.multi /\ Level0(r) = {"Close", "Open"}

SymbolsOf(r) == {r.cols[i][2] : i \in 1..Len(r.cols)}

(* C4: from a two-level raw table keyed by field then symbol the normaliser  *)
(* returns a single-level table whose columns are exactly the symbols and    *)
(* whose cells are the Close cells; the two-level branch is the one taken.   *)
C4_TwoLevelCloseSelected ==
    (pc = "gapfill" /\ FieldThenSymbol(raw)) =>
        /\ shape = "TwoLevelColumns"
        /\ data.kind = "frame"
        /\ ColumnSet(data) = SymbolsOf(raw)
        /\ Len(data.cols) = Cardinality(SymbolsOf(raw))
        /\ data.n = raw.n
        /\ \A i \in 1..Len(data.cols) :
              /\ Len(data.vals[i]) = raw.n
              /\ \A t \in 1..raw.n :
                    data.vals[i][t] = RawCell(raw, "Close", data.cols[i], t)

C4_Witness ==
    /\ pc = "gapfill"
    /\ FieldThenSymbol(raw)
    /\ raw.n = 2
    /\ data.cols = <<"BTC-USD", "ETH-USD">>
    /\ data.vals = << <<Num(105), Num(0)>>, <<Num(110), NaN>> >>
    /\ RawCell(raw, "Open", "BTC-USD", 1) = OpenCell

(* the table handed to the gap filler in this pass *)
GapFillInput == SchemaNormalizer(raw).data

HasValid(col) == \E t \in 1..Len(col) : ~IsNaN(col[t])

ValidBefore(col, t) == {s \in 1..(t - 1) : ~IsNaN(col[s])}

ValidAfter(col, t) == {s \in (t + 1)..Len(col) : ~IsNaN(col[s])}

MaxIn(S) == CHOOSE x \in S : \A y \in S : y <= x

MinIn(S) == CHOOSE x \in S : \A y \in S : x <= y

FilledFrom(in, out) ==
    /\ Len(out) = Len(in)
    /\ \A t \in 1..Len(in) :
          /\ ~IsNaN(out[t])
          /\ ~IsNaN(in[t]) => out[t] = in[t]
          /\ (IsNaN(in[t]) /\ ValidBefore(in, t) # {}) =>
                out[t] = in[MaxIn(ValidBefore(in, t))]
          /\ (IsNaN(in[t]) /\ ValidBefore(in, t) = {}) =>
                out[t] = in[MinIn(ValidAfter(in, t))]

(* C5: on a table with a valid value in every column, gap filling keeps the  *)
(* index and the columns, leaves valid cells alone, gives a missing cell the *)
(* most recent earlier valid value, or the nearest later one when there is   *)
(* none, and leaves no cell missing.                                         *)
C5_GapFillComplete ==
    (pc = "guard" /\ \A i \in 1..Len(GapFillInput.vals) : HasValid(GapFillInput.vals[i])) =>
        /\ data.n = GapFillInput.n
        /\ data.cols = GapFillInput.cols
        /\ Len(data.vals) = Len(GapFillInput.vals)
        /\ \A i \in 1..Len(data.vals) : FilledFrom(GapFillInput.vals[i], data.vals[i])

C5_Witness ==
    /\ pc = "guard"
    /\ GapFillInput.cols = <<"BTC-USD", "ETH-USD">>
    /\ GapFillInput.vals = << <<Num(100), NaN, Num(110)>>, <<NaN, NaN, Num(100)>> >>
    /\ data.vals = << <<Num(100), Num(100), Num(110)>>,
                      <<Num(100), Num(100), Num(100)>> >>

AfterPortfolio == pc \in {"btc_ema", "eth_ema", "metrics", "signal", "done"}

Prices(name) == Column(data, name)

(* norm[t] = price[t] / price[1], stated by cross-multiplication *)
IsQuotient(q, a, b) ==
    /\ IsNum(q) /\ IsNum(a) /\ IsNum(b)
    /\ q.n * a.d * b.n = a.n * q.d * b.d

(* C6 as stated: for any non-empty price series (here: one without missing  *)
(* cells) the normalized series starts at exactly 1.0 and is                 *)
(* price[t] / price[0] throughout.                                           *)
C6_NormalizationIdentityAnySeries ==
    (AfterPortfolio /\ NoMissingCells(data)) =>
        /\ portfolios.btc[1] = Num(1)
        /\ portfolios.eth[1] = Num(1)
        /\ \A t \in 1..data.n :
              /\ portfolios.btc[t] = Div(Prices("BTC-USD")[t], Prices("BTC-USD")[1])
              /\ portfolios.eth[t] = Div(Prices("ETH-USD")[t], Prices("ETH-USD")[1])

NormalizedFrom(norm, price) ==
    (IsNum(price[1]) /\ price[1].n # 0) =>
        /\ Len(norm) = Len(price)
        /\ norm[1] = Num(1)
        /\ \A t \in 1..Len(price) : IsQuotient(norm[t], price[t], price[1])

(* C6 amended: for a series of valid prices whose first price is non-zero    *)
(* the normalized series starts at exactly 1.0 and is price[t] / price[0].   *)
C6_NormalizationIdentity ==
    AfterPortfolio =>
        /\ NormalizedFrom(portfolios.btc, Prices("BTC-USD"))
        /\ NormalizedFrom(portfolios.eth, Prices("ETH-USD"))

C6_Witness ==
    /\ pc = "btc_ema"
    /\ Prices("BTC-USD") = <<Num(100), Num(110), Num(105)>>
    /\ Prices("ETH-USD") = <<Num(110), Num(100), Num(100)>>
    /\ portfolios.btc = <<Num(1), Rat(11, 10), Rat(21, 20)>>
    /\ portfolios.eth = <<Num(1), Rat(10, 11), Rat(10, 11)>>

FollowsRecurrence(ema, price, alpha) ==
    /\ Len(ema) = Len(price)
    /\ ema[1] = price[1]
    /\ \A t \in 2..Len(price) :
          ema[t] = Add(Mul(alpha, price[t]), Mul(Sub(Num(1), alpha), ema[t - 1]))

EmaOfExample(last) ==
    pc \in {"eth_ema", "metrics", "signal", "done"} =>
        (Prices("BTC-USD") = <<Num(100), Num(110), Num(105)>> =>
            btc_ema = <<Num(100), Rat(205, 2), last>>)

EmaFollowsRecurrence ==
    /\ Rat(2, ema_period + 1) = Rat(1, 4)
    /\ pc \in {"eth_ema", "metrics", "signal", "done"} =>
          FollowsRecurrence(btc_ema, Prices("BTC-USD"), Rat(2, ema_period + 1))
    /\ pc \in {"metrics", "signal", "done"} =>
          FollowsRecurrence(eth_ema, Prices("ETH-USD"), Rat(2, ema_period + 1))

(* C7 as stated: each symbol's EMA is the unadjusted recurrence over the raw *)
(* gap-filled prices with alpha = 2/(7+1) = 1/4: EMA[0] = price[0], EMA[t] = *)
(* alpha*price[t] + (1-alpha)*EMA[t-1]; and [100,110,105] gives              *)
(* [100, 102.5, 102.875].                                                    *)
C7_EmaRecurrenceAsStated ==
    EmaFollowsRecurrence /\ EmaOfExample(Rat(102875, 1000))

(* C7 amended: the same recurrence, and [100,110,105] gives                  *)
(* [100, 102.5, 103.125].                                                    *)
C7_EmaRecurrence ==
    EmaFollowsRecurrence /\ EmaOfExample(Rat(103125, 1000))

C7_Witness ==
    /\ pc = "metrics"
    /\ Prices("BTC-USD") = <<Num(100), Num(110), Num(105)>>
    /\ btc_ema = <<Num(100), Rat(205, 2), Rat(825, 8)>>
    /\ Prices("ETH-USD") = <<Num(100), Num(110), Num(110)>>
    /\ eth_ema = <<Num(100), Rat(205, 2), Rat(835, 8)>>

ValidPair(a, b) == IsNum(a) /\ IsNum(b) /\ a.n # 0

(* C8: for a valid final-row pair (A = BTC, B = ETH) each return is          *)
(* (normalized - 1) * 100, the ratio is B / A and equals                     *)
(* (1 + returnB/100) / (1 + returnA/100), and the difference is              *)
(* returnB - returnA.                                                        *)
C8_MetricsConsistency ==
    (pc \in {"signal", "done"} /\ ValidPair(Last(portfolios.btc), Last(portfolios.eth))) =>
        LET a  == Last(portfolios.btc)
            b  == Last(portfolios.eth)
            rA == metrics.btc_return_pct
            rB == metrics.eth_return_pct
        IN  /\ metrics.btc_last = a
            /\ metrics.eth_last = b
            /\ rA = Mul(Sub(a, Num(1)), Num(100))
            /\ rB = Mul(Sub(b, Num(1)), Num(100))
            /\ IsQuotient(metrics.eth_btc_ratio, b, a)
            /\ metrics.eth_btc_ratio =
                  Div(Add(Num(1), Div(rB, Num(100))), Add(Num(1), Div(rA, Num(100))))
            /\ metrics.diff_pct = Sub(rB, rA)

C8_Witness ==
    /\ pc = "signal"
    /\ metrics.widgets = 3
    /\ metrics.btc_last = Rat(21, 20)
    /\ metrics.eth_last = Rat(10, 11)
    /\ metrics.btc_return_pct = Num(5)
    /\ metrics.eth_return_pct = Rat(-100, 11)
    /\ metrics.eth_btc_ratio = Rat(200, 231)
    /\ metrics.diff_pct = Rat(-155, 11)

(* C9: a pass that runs the signal step emits exactly one banner: success    *)
(* iff ETH's last normalized value is strictly greater than BTC's, warning   *)
(* otherwise, so an exact tie gives warning; no banner exists before.        *)
C9_SignalTieBreak ==
    /\ pc = "done" =>
          LET a == Last(portfolios.btc)
              b == Last(portfolios.eth)
          IN  /\ banner \in {"success", "warning"}
              /\ banner = "success" <=> Gt(b, a)
              /\ a = b => banner = "warning"
    /\ pc # "done" => banner = "none"

C9_Witness ==
    /\ pc = "done"
    /\ Last(portfolios.btc) = Rat(11, 10)
    /\ Last(portfolios.eth) = Rat(11, 10)
    /\ banner = "warning"

(* C10: when BTC's last normalized value is exactly zero (on a table without *)
(* missing cells) the metrics step fails with DivisionByZeroError and emits  *)
(* no ratio, metric or banner.                                               *)
C10_ZeroDenominatorGuarded ==
    (pc \in {"signal", "done"} /\ NoMissingCells(data)
        /\ Last(portfolios.btc) = Num(0)) =>
        /\ outcome = "DivisionByZeroError"
        /\ metrics.widgets = 0
        /\ banner = "none"

====
